---- MODULE Spec2Model ----
(***************************************************************************)
(* ImpedanceRegulation (articulated_franka/robot.py): a client of a robot  *)
(* controller.  The client is one sequential thread; the controller and    *)
(* the wall clock are its environment and run between any two of its       *)
(* statements.                                                             *)
(***************************************************************************)
EXTENDS Integers, Sequences, FiniteSets, TLC

\* ---------------------------------------------------------------- bounds
MaxClock == 1      \* outside a wait the clock runs up to here; inside one, on to its deadline
MaxCalls == 2      \* client calls in one session
MaxGainLen == 6    \* longest stiffness / damping sequence a caller supplies

\* ------------------------------------------------------ program constants
ConnectTimeout == 3          \* wait_for_server(rospy.Duration(3))
SubmitTimeout == 10          \* time.time() - t0 > 10
StopTimeout == 3             \* time.time() - t0 > 3
GainDim == 6                 \* len(stiffness) == 6
MatDim == 4                  \* reshape(4, 4)
DefaultForceBound == 50
DefaultTorqueBound == 4
DefaultStiffness == <<150, 150, 150, 10, 10, 10>>
DefaultDamping == <<30, 30, 30, 8, 8, 8>>

\* Python's None, and a value that is there: an optional is a tuple of 0 or 1.
None == << >>
Some(x) == <<x>>

\* actionlib_msgs GoalStatus, as SimpleActionClient.get_state() reports it.
GoalStatus ==
  {"PENDING", "ACTIVE", "PREEMPTED", "SUCCEEDED", "ABORTED", "REJECTED", "RECALLED", "LOST"}

\* ------------------------------------------------- numpy reshape / flatten
\* np.array(v).reshape(4, 4) with the rows the other way round (Fortran order)
ReshapeColumnMajor(v) ==
  [i \in 1..MatDim |-> [j \in 1..MatDim |-> v[(j - 1) * MatDim + i]]]

\* np.array(v).reshape(4, 4): the matrix as its rows, each the next 4 values of v.
Reshape(v) ==
  [i \in 1..MatDim |-> SubSeq(v, (i - 1) * MatDim + 1, i * MatDim)]

\* m.flatten() reading down the columns (Fortran order)
FlattenColumnMajor(m) ==
  [k \in 1..(MatDim * MatDim) |-> m[((k - 1) % MatDim) + 1][((k - 1) \div MatDim) + 1]]

RECURSIVE FlattenFrom(_, _)
FlattenFrom(m, i) == IF i > Len(m) THEN << >> ELSE m[i] \o FlattenFrom(m, i + 1)

\* m.flatten().tolist(): the rows of m one after the other.
Flatten(m) == FlattenFrom(m, 1)

\* ------------------------------------------------------------ input sets
\* What the get_ee_transform service answers: 16 values.
PoseResponses ==
  { <<1, 0, 0, 2,  0, 1, 0, 3,  0, 0, 1, 4,  0, 0, 0, 1>>,
    [k \in 1..(MatDim * MatDim) |-> k - 1] }
Transforms == {Reshape(r) : r \in PoseResponses}
HomeTransform == Reshape(<<1, 0, 0, 2,  0, 1, 0, 3,  0, 0, 1, 4,  0, 0, 0, 1>>)

GainLens == (GainDim - 1)..MaxGainLen
GainVals == {1}
GainInputs == {None} \cup {Some([i \in 1..n |-> v]) : n \in GainLens, v \in GainVals}
OtherGains == Some(<<100, 200, 300, 20, 30, 40>>)

\* A call's arguments as the caller wrote them: an omitted keyword is None, and
\* extra holds the keywords the method does not declare.
Arg(T, s, d, f, q, x) ==
  [target |-> T, stiffness |-> s, damping |-> d, force |-> f, torque |-> q, extra |-> x]

\* regulate_ee(T, ee_control_force_bound=7, k_translation=150, k_rotation=10)
ScriptArgs == Arg(HomeTransform, None, None, Some(7), None, {"k_translation", "k_rotation"})

\* Every pair of gain arguments with the bounds left out; gains of other values; the
\* bounds the callers pass, with the gains left out; another target; the script's call.
ArgInputs ==
  {Arg(HomeTransform, s, d, None, None, {}) : s \in GainInputs, d \in GainInputs}
  \cup {Arg(HomeTransform, OtherGains, OtherGains, None, None, {})}
  \cup {Arg(HomeTransform, None, None, Some(f), None, {}) : f \in {5, 7}}
  \cup {Arg(HomeTransform, None, None, None, Some(2), {})}
  \cup {Arg(T, None, None, None, None, {}) : T \in Transforms}
  \cup {ScriptArgs}
ResultTexts == {"fault_a", "fault_b"}
NoArgs == Arg(<< >>, None, None, None, None, {})

\* A keyword argument: the caller's value, or the signature's default.
Param(x, default) == IF x = None THEN default ELSE x[1]

VARIABLES
  pc,              \* the client's position
  op,              \* the call in progress, or the last one
  args,            \* its arguments
  outcome,         \* "running", "returned", or the error it raised
  errPayload,      \* what the goal-aborted error carries
  ret,             \* what is_idle() or get_ee_transform() returned to the caller
  o_T_ee,          \* the response get_ee_transform() received
  state,           \* regulate_ee's local `state`; in stop(), the status is_idle() last read
  looped,          \* stop() entered the body of its poll loop
  t0,              \* the call's local t0
  now,             \* time.time(), in units since the call in progress began
  waited,          \* ROS time spent inside wait_for_server
  entryStatus,     \* the goal status when the call began
  follows,         \* the call began right after regulate_ee returned normally
  nGoals,          \* send_goal calls of the call in progress
  nCancels,        \* cancel_goal calls of the call in progress
  nConfig,         \* set_regulate_ee_config requests of the call in progress
  sent,            \* the config the call put on the wire, if it did
  nCalls,          \* calls made so far
  serverUp,        \* the action endpoint is reachable
  status,          \* the goal status the action client reports
  result,          \* the remote result's status field, once there is one
  cancelRequested  \* a cancel was issued for the current goal

vars ==
  <<pc, op, args, outcome, errPayload, ret, o_T_ee, state, looped, t0, now, waited, entryStatus, follows,
    nGoals, nCancels, nConfig, sent, nCalls, serverUp, status, result, cancelRequested>>

\* what the client thread writes, the clock apart
clientVars ==
  <<pc, op, args, outcome, errPayload, ret, o_T_ee, state, looped, t0, entryStatus, follows,
    nGoals, nCancels, nConfig, sent, nCalls>>
\* what a statement inside a call leaves alone unless it says otherwise
callVars == <<op, args, entryStatus, follows, nCalls, ret, o_T_ee>>
goalVars == <<status, result, cancelRequested>>

\* is_idle() with LOST left out of the test
IsIdleNoLost(s) ==
  \/ s = "SUCCEEDED"
  \/ s = "PREEMPTED"
  \/ s = "ABORTED"

\* ------------------------------------------------------------- is_idle()
IsIdle(s) ==
  \/ s = "SUCCEEDED"
  \/ s = "PREEMPTED"
  \/ s = "ABORTED"
  \/ s = "LOST"

\* _fill_in_config() keeping the gains the caller supplied
FillInConfigCallerGains(target, stiffness, damping, force, torque) ==
  IF stiffness # None /\ Len(stiffness[1]) # GainDim
  THEN [err |-> "AssertionError: Stiffness dimension does not match", config |-> None]
  ELSE IF damping # None /\ stiffness = None
  THEN [err |-> "TypeError", config |-> None]
  ELSE [err |-> "none",
        config |-> Some([o_T_ee_desired |-> Flatten(target),
                         stiffness |-> stiffness, damping |-> damping,
                         ee_control_force_bound |-> force,
                         ee_control_torque_bound |-> torque])]

\* _fill_in_config() giving an omitted gain its default vector
FillInConfigDefaultsForOmitted(target, stiffness, damping, force, torque) ==
  IF stiffness # None /\ Len(stiffness[1]) # GainDim
  THEN [err |-> "AssertionError: Stiffness dimension does not match", config |-> None]
  ELSE [err |-> "none",
        config |-> Some([o_T_ee_desired |-> Flatten(target),
                         stiffness |-> Some(DefaultStiffness),
                         damping |-> Some(DefaultDamping),
                         ee_control_force_bound |-> force,
                         ee_control_torque_bound |-> torque])]

\* ----------------------------------------------------- _fill_in_config()
\* The error it raises ("none" when it returns) and the config it filled.
FillInConfig(target, stiffness, damping, force, torque) ==
  IF stiffness # None /\ Len(stiffness[1]) # GainDim
  THEN [err |-> "AssertionError: Stiffness dimension does not match", config |-> None]
  ELSE
    LET s1 == IF stiffness # None THEN Some(DefaultStiffness) ELSE None
    IN  IF damping # None /\ s1 = None
        THEN [err |-> "TypeError", config |-> None]     \* len(None)
        ELSE IF damping # None /\ Len(s1[1]) # GainDim  \* len(stiffness), not len(damping)
        THEN [err |-> "AssertionError: Damping dimension does not match", config |-> None]
        ELSE
          LET d1 == IF damping # None THEN Some(DefaultDamping) ELSE None
          IN  [err |-> "none",
               config |-> Some([o_T_ee_desired |-> Flatten(target),
                                stiffness |-> s1, damping |-> d1,
                                ee_control_force_bound |-> force,
                                ee_control_torque_bound |-> torque])]

Free == pc = "idle" /\ nCalls < MaxCalls

\* A call begins: its locals and the record of what it did are fresh.
Begin(name, a) ==
  /\ Free
  /\ op' = name
  /\ args' = a
  /\ entryStatus' = status
  /\ follows' = (op = "regulate_ee" /\ outcome = "returned")
  /\ nCalls' = nCalls + 1
  /\ errPayload' = None
  /\ looped' = FALSE
  /\ nGoals' = 0
  /\ nCancels' = 0

\* A call ends: its timers go with it.
Finish(how) ==
  /\ pc' = "idle"
  /\ outcome' = how
  /\ t0' = 0
  /\ now' = 0
  /\ waited' = 0

\* --------------------------------------------------------------- Init
Init ==
  /\ pc = "idle"
  /\ op = "none"
  /\ args = NoArgs
  /\ outcome = "returned"
  /\ errPayload = None
  /\ ret = None
  /\ o_T_ee = None
  /\ state = "none"
  /\ looped = FALSE
  /\ t0 = 0
  /\ now = 0
  /\ waited = 0
  /\ entryStatus = "LOST"
  /\ follows = FALSE
  /\ nGoals = 0
  /\ nCancels = 0
  /\ nConfig = 0
  /\ sent = None
  /\ nCalls = 0
  /\ serverUp = FALSE
  /\ status = "LOST"         \* get_state() with no goal
  /\ result = None
  /\ cancelRequested = FALSE

\* ------------------------------------------------------------ is_idle()
CallIsIdle ==
  /\ Begin("is_idle", NoArgs)
  /\ state' = status
  /\ ret' = Some(IsIdle(status))
  /\ o_T_ee' = None
  /\ Finish("returned")
  /\ nConfig' = 0
  /\ sent' = None
  /\ UNCHANGED <<serverUp, goalVars>>

\* ---------------------------------------------------- get_ee_transform()
\* res = self._c_get_T_ee.call(); return np.array(res.o_T_ee).reshape(4, 4)
GetEeTransform(res) ==
  /\ Begin("get_ee_transform", NoArgs)
  /\ o_T_ee' = Some(res)
  /\ ret' = Some(Reshape(res))
  /\ state' = "none"
  /\ Finish("returned")
  /\ nConfig' = 0
  /\ sent' = None
  /\ UNCHANGED <<serverUp, goalVars>>

CallGetEeTransform == \E res \in PoseResponses : GetEeTransform(res)

\* set_ee() cancelling the action client's goal on its way
SetEeCancelling(a) ==
  /\ Begin("set_ee", a)
  /\ ret' = None
  /\ o_T_ee' = None
  /\ state' = "none"
  /\ LET f == FillInConfig(a.target, a.stiffness, a.damping,
                           Param(a.force, DefaultForceBound),
                           Param(a.torque, DefaultTorqueBound))
     IN  IF a.extra # {}
         THEN /\ Finish("TypeError: unexpected keyword argument")
              /\ nConfig' = 0
              /\ sent' = None
         ELSE IF f.err # "none"
         THEN /\ Finish(f.err)
              /\ nConfig' = 0
              /\ sent' = None
         ELSE /\ Finish("returned")
              /\ nConfig' = 1
              /\ sent' = f.config
  /\ cancelRequested' = TRUE
  /\ UNCHANGED <<serverUp, status, result>>

\* -------------------------------------------------------------- set_ee()
SetEe(a) ==
  /\ Begin("set_ee", a)
  /\ ret' = None
  /\ o_T_ee' = None
  /\ state' = "none"
  /\ LET f == FillInConfig(a.target, a.stiffness, a.damping,
                           Param(a.force, DefaultForceBound),
                           Param(a.torque, DefaultTorqueBound))
     IN  IF a.extra # {}
         THEN /\ Finish("TypeError: unexpected keyword argument")
              /\ nConfig' = 0
              /\ sent' = None
         ELSE IF f.err # "none"
         THEN /\ Finish(f.err)
              /\ nConfig' = 0
              /\ sent' = None
         ELSE /\ Finish("returned")
              /\ nConfig' = 1        \* self._c_config.call(req)
              /\ sent' = f.config
  /\ UNCHANGED <<serverUp, goalVars>>

CallSetEe == \E a \in ArgInputs : SetEe(a)

\* regulate_ee() validating the gains before it waits for the server
RegulateEeValidateFirst(a) ==
  /\ Begin("regulate_ee", a)
  /\ ret' = None
  /\ o_T_ee' = None
  /\ state' = "none"
  /\ nConfig' = 0
  /\ sent' = None
  /\ LET f == FillInConfig(a.target, a.stiffness, a.damping,
                           Param(a.force, DefaultForceBound),
                           Param(a.torque, DefaultTorqueBound))
     IN  IF a.extra # {}
         THEN Finish("TypeError: unexpected keyword argument")
         ELSE IF f.err # "none"
         THEN Finish(f.err)
         ELSE /\ outcome' = "running"
              /\ pc' = "reg_wait"
              /\ UNCHANGED <<t0, now, waited>>
  /\ UNCHANGED <<serverUp, goalVars>>

\* --------------------------------------------------------- regulate_ee()
RegulateEe(a) ==
  /\ Begin("regulate_ee", a)
  /\ ret' = None
  /\ o_T_ee' = None
  /\ state' = "none"
  /\ nConfig' = 0
  /\ sent' = None
  /\ IF a.extra # {}
     THEN Finish("TypeError: unexpected keyword argument")
     ELSE /\ outcome' = "running"
          /\ pc' = "reg_wait"
          /\ UNCHANGED <<t0, now, waited>>
  /\ UNCHANGED <<serverUp, goalVars>>

CallRegulateEe == \E a \in ArgInputs : RegulateEe(a)

\* wait_for_server(rospy.Duration(3)) returned True
RegWaitConnected ==
  /\ pc = "reg_wait"
  /\ serverUp
  /\ pc' = "reg_fill"
  /\ waited' = 0
  /\ UNCHANGED <<callVars, outcome, errPayload, state, looped, t0, now,
                 nGoals, nCancels, nConfig, sent, serverUp, goalVars>>

\* regulate_ee going on after wait_for_server returned False
RegWaitTimeoutIgnored ==
  /\ pc = "reg_wait"
  /\ ~serverUp
  /\ waited >= ConnectTimeout
  /\ pc' = "reg_fill"
  /\ UNCHANGED <<callVars, outcome, errPayload, state, looped, t0, now, waited,
                 nGoals, nCancels, nConfig, sent, serverUp, goalVars>>

\* wait_for_server returned False: raise RuntimeError("Action server connection time out!")
RegWaitTimeout ==
  /\ pc = "reg_wait"
  /\ ~serverUp
  /\ waited >= ConnectTimeout
  /\ Finish("Action server connection time out!")
  /\ UNCHANGED <<callVars, errPayload, state, looped,
                 nGoals, nCancels, nConfig, sent, serverUp, goalVars>>

\* goal = ...; _fill_in_config(goal.config, ...); send_goal(goal)
RegFillSend ==
  /\ pc = "reg_fill"
  /\ LET f == FillInConfig(args.target, args.stiffness, args.damping,
                           Param(args.force, DefaultForceBound),
                           Param(args.torque, DefaultTorqueBound))
     IN  IF f.err # "none"
         THEN /\ Finish(f.err)
              /\ UNCHANGED <<goalVars, nGoals, sent>>
         ELSE /\ pc' = "reg_state"
              /\ UNCHANGED <<outcome, t0, now, waited>>
              /\ nGoals' = nGoals + 1
              /\ sent' = f.config
              /\ status' = "PENDING"
              /\ result' = None
              /\ cancelRequested' = FALSE
  /\ UNCHANGED <<callVars, errPayload, state, looped, nCancels, nConfig, serverUp>>

\* state = get_state(); t0 = time.time()
RegFirstState ==
  /\ pc = "reg_state"
  /\ state' = status
  /\ t0' = now
  /\ pc' = "reg_while"
  /\ UNCHANGED <<callVars, outcome, errPayload, looped, now, waited,
                 nGoals, nCancels, nConfig, sent, serverUp, goalVars>>

\* while state == GoalStatus.PENDING: state = get_state(); rospy.sleep(0.001)
RegPoll ==
  /\ pc = "reg_while"
  /\ state = "PENDING"
  /\ state' = status
  /\ pc' = "reg_deadline"
  /\ UNCHANGED <<callVars, outcome, errPayload, looped, t0, now, waited,
                 nGoals, nCancels, nConfig, sent, serverUp, goalVars>>

\* regulate_ee polling again when the deadline has passed
RegDeadlineRetry ==
  /\ pc = "reg_deadline"
  /\ pc' = "reg_while"
  /\ UNCHANGED <<callVars, outcome, errPayload, state, looped, t0, now, waited,
                 nGoals, nCancels, nConfig, sent, serverUp, goalVars>>

\* if time.time() - t0 > 10: (cancel and raise), else back to the loop test
RegDeadline ==
  /\ pc = "reg_deadline"
  /\ pc' = IF now - t0 > SubmitTimeout THEN "reg_cancel" ELSE "reg_while"
  /\ UNCHANGED <<callVars, outcome, errPayload, state, looped, t0, now, waited,
                 nGoals, nCancels, nConfig, sent, serverUp, goalVars>>

\* regulate_ee raising its timeout without the cancel
RegCancelForgotten ==
  /\ pc = "reg_cancel"
  /\ pc' = "reg_raise"
  /\ UNCHANGED <<callVars, outcome, errPayload, state, looped, t0, now, waited,
                 nGoals, nCancels, nConfig, sent, serverUp, goalVars>>

\* self._c_regulate_ee.cancel_goal()
RegCancel ==
  /\ pc = "reg_cancel"
  /\ nCancels' = nCancels + 1
  /\ cancelRequested' = TRUE
  /\ pc' = "reg_raise"
  /\ UNCHANGED <<callVars, outcome, errPayload, state, looped, t0, now, waited,
                 nGoals, nConfig, sent, serverUp, status, result>>

\* the timeout sending the goal once more before it is raised
RegRaiseResend ==
  /\ pc = "reg_raise"
  /\ nGoals' = nGoals + 1
  /\ status' = "PENDING"
  /\ result' = None
  /\ cancelRequested' = FALSE
  /\ Finish("Timeout!")
  /\ UNCHANGED <<callVars, errPayload, state, looped, nCancels, nConfig, sent, serverUp>>

\* raise RuntimeError("Timeout!")
RegRaise ==
  /\ pc = "reg_raise"
  /\ Finish("Timeout!")
  /\ UNCHANGED <<callVars, errPayload, state, looped,
                 nGoals, nCancels, nConfig, sent, serverUp, goalVars>>

\* the loop is left and regulate_ee returns without its ABORTED test
RegAfterLoopUnchecked ==
  /\ pc = "reg_while"
  /\ state # "PENDING"
  /\ errPayload' = errPayload
  /\ Finish("returned")
  /\ UNCHANGED <<callVars, state, looped,
                 nGoals, nCancels, nConfig, sent, serverUp, goalVars>>

\* the loop is left: if state == GoalStatus.ABORTED: raise "Goal aborted! %s" % result.status
RegAfterLoop ==
  /\ pc = "reg_while"
  /\ state # "PENDING"
  /\ IF state = "ABORTED"
     THEN /\ errPayload' = result
          /\ Finish("Goal aborted!")
     ELSE /\ errPayload' = errPayload
          /\ Finish("returned")
  /\ UNCHANGED <<callVars, state, looped,
                 nGoals, nCancels, nConfig, sent, serverUp, goalVars>>

\* stop() without its idle test
CallStopUnchecked ==
  /\ Begin("stop", NoArgs)
  /\ ret' = None
  /\ o_T_ee' = None
  /\ nConfig' = 0
  /\ sent' = None
  /\ state' = status
  /\ pc' = "stop_cancel"
  /\ outcome' = "running"
  /\ UNCHANGED <<t0, now, waited, serverUp, goalVars>>

\* ----------------------------------------------------------------- stop()
\* if self.is_idle(): return
CallStop ==
  /\ Begin("stop", NoArgs)
  /\ ret' = None
  /\ o_T_ee' = None
  /\ nConfig' = 0
  /\ sent' = None
  /\ state' = status
  /\ IF IsIdle(status)
     THEN Finish("returned")
     ELSE /\ pc' = "stop_cancel"
          /\ outcome' = "running"
          /\ UNCHANGED <<t0, now, waited>>
  /\ UNCHANGED <<serverUp, goalVars>>

\* stop() polling without the cancel
StopCancelForgotten ==
  /\ pc = "stop_cancel"
  /\ t0' = now
  /\ pc' = "stop_while"
  /\ UNCHANGED <<callVars, outcome, errPayload, state, looped, now, waited,
                 nGoals, nCancels, nConfig, sent, serverUp, goalVars>>

\* self._c_regulate_ee.cancel_goal(); t0 = time.time()
StopCancel ==
  /\ pc = "stop_cancel"
  /\ nCancels' = nCancels + 1
  /\ cancelRequested' = TRUE
  /\ t0' = now
  /\ pc' = "stop_while"
  /\ UNCHANGED <<callVars, outcome, errPayload, state, looped, now, waited,
                 nGoals, nConfig, sent, serverUp, status, result>>

\* while not self.is_idle(): time.sleep(0.001)
StopPoll ==
  /\ pc = "stop_while"
  /\ state' = status
  /\ IF IsIdle(status)
     THEN /\ Finish("returned")
          /\ looped' = looped
     ELSE /\ pc' = "stop_deadline"
          /\ looped' = TRUE
          /\ UNCHANGED <<outcome, t0, now, waited>>
  /\ UNCHANGED <<callVars, errPayload,
                 nGoals, nCancels, nConfig, sent, serverUp, goalVars>>

\* stop() with >= for > in its deadline test
StopDeadlineEarly ==
  /\ pc = "stop_deadline"
  /\ pc' = IF now - t0 >= StopTimeout THEN "stop_raise" ELSE "stop_while"
  /\ UNCHANGED <<callVars, outcome, errPayload, state, looped, t0, now, waited,
                 nGoals, nCancels, nConfig, sent, serverUp, goalVars>>

\* if time.time() - t0 > 3: (raise), else back to the loop test
StopDeadline ==
  /\ pc = "stop_deadline"
  /\ pc' = IF now - t0 > StopTimeout THEN "stop_raise" ELSE "stop_while"
  /\ UNCHANGED <<callVars, outcome, errPayload, state, looped, t0, now, waited,
                 nGoals, nCancels, nConfig, sent, serverUp, goalVars>>

\* raise RuntimeError("Stop timeout!")
StopRaise ==
  /\ pc = "stop_raise"
  /\ Finish("Stop timeout!")
  /\ UNCHANGED <<callVars, errPayload, state, looped,
                 nGoals, nCancels, nConfig, sent, serverUp, goalVars>>

\* ------------------------------------------------------- the environment
\* The deadline of the poll loop the client is in.
Deadline ==
  CASE pc \in {"reg_while", "reg_deadline"} -> SubmitTimeout
    [] pc \in {"stop_while", "stop_deadline"} -> StopTimeout
    [] OTHER -> 0

Polling == pc \in {"reg_while", "reg_deadline", "stop_while", "stop_deadline"}

\* The wall clock advances.
Tick ==
  /\ \/ pc # "idle" /\ now < MaxClock
     \/ Polling /\ now - t0 <= Deadline
  /\ now' = now + 1
  /\ UNCHANGED <<clientVars, waited, serverUp, goalVars>>

\* ROS time advances while wait_for_server blocks.
RosTick ==
  /\ pc = "reg_wait"
  /\ ~serverUp
  /\ waited < ConnectTimeout
  /\ waited' = waited + 1
  /\ UNCHANGED <<clientVars, now, serverUp, goalVars>>

ServerStart ==
  /\ ~serverUp
  /\ serverUp' = TRUE
  /\ UNCHANGED <<clientVars, now, waited, goalVars>>

Move(from, to) ==
  /\ status \in from
  /\ status' = to
  /\ UNCHANGED <<clientVars, now, waited, serverUp, cancelRequested>>

CtrlAccept == Move({"PENDING"}, "ACTIVE") /\ UNCHANGED result
CtrlReject == Move({"PENDING"}, "REJECTED") /\ UNCHANGED result
CtrlRecall == cancelRequested /\ Move({"PENDING"}, "RECALLED") /\ UNCHANGED result
CtrlSucceed == Move({"ACTIVE"}, "SUCCEEDED") /\ UNCHANGED result
CtrlPreempt == Move({"ACTIVE"}, "PREEMPTED") /\ UNCHANGED result
CtrlAbort == Move({"ACTIVE"}, "ABORTED") /\ \E txt \in ResultTexts : result' = Some(txt)
CtrlLost == Move({"PENDING", "ACTIVE"}, "LOST") /\ UNCHANGED result

Controller ==
  \/ CtrlAccept
  \/ CtrlReject
  \/ CtrlRecall
  \/ CtrlSucceed
  \/ CtrlPreempt
  \/ CtrlAbort
  \/ CtrlLost

ClientStep ==
  \/ RegWaitConnected
  \/ RegWaitTimeout
  \/ RegFillSend
  \/ RegFirstState
  \/ RegPoll
  \/ RegDeadline
  \/ RegCancel
  \/ RegRaise
  \/ RegAfterLoop
  \/ StopCancel
  \/ StopPoll
  \/ StopDeadline
  \/ StopRaise

ClientCall ==
  \/ CallIsIdle
  \/ CallGetEeTransform
  \/ CallSetEe
  \/ CallRegulateEe
  \/ CallStop

Next ==
  \/ ClientCall
  \/ ClientStep
  \/ Controller
  \/ Tick
  \/ RosTick
  \/ ServerStart

Spec == Init /\ [][Next]_vars

\* The client thread runs while it has a statement to run, and both clocks advance.
FairSpec == Spec /\ WF_vars(ClientStep) /\ WF_vars(Tick) /\ WF_vars(RosTick)

\* ================================================================ claims
\* The statuses the specification calls idle.
IdleStatuses == {"SUCCEEDED", "PREEMPTED", "ABORTED", "LOST"}
\* The errors _fill_in_config's length checks raise.
FillErrors ==
  {"AssertionError: Stiffness dimension does not match",
   "AssertionError: Damping dimension does not match",
   "TypeError"}
BadLen(g) == g # None /\ Len(g[1]) # GainDim
StopAfterRegulate ==
  op = "stop" /\ follows /\ entryStatus \in {"PENDING", "ACTIVE"}

\* C1 as stated: regulate_ee returned, stop() was called at once on a PENDING or
\* ACTIVE goal, and the controller has moved the goal to an idle status: then stop()
\* returned normally.
C1_Original ==
  (StopAfterRegulate /\ pc = "idle" /\ status \in IdleStatuses) => outcome = "returned"

\* C1, amended: stop() called right after regulate_ee returned, on a PENDING or ACTIVE
\* goal, issues exactly one cancel for that goal and submits nothing; it returns
\* normally exactly when one of its polls read an idle status, and otherwise it ends
\* with the stop-timeout error, more than 3 units after its cancel.
C1_StopAfterRegulate ==
  StopAfterRegulate =>
    /\ pc # "stop_cancel" => nCancels = 1 /\ cancelRequested
    /\ nGoals = 0 /\ nConfig = 0
    /\ pc = "stop_raise" => now - t0 > StopTimeout
    /\ pc = "idle" =>
         \/ outcome = "returned" /\ state \in IdleStatuses
         \/ outcome = "Stop timeout!" /\ state \notin IdleStatuses

C1_Witness ==
  /\ StopAfterRegulate
  /\ pc = "idle"
  /\ entryStatus = "ACTIVE"
  /\ looped
  /\ outcome = "returned"
  /\ state = "PREEMPTED"

\* C2: a set_ee or regulate_ee call given a stiffness or a damping sequence whose
\* length is not 6 sends no config request and no goal, and once _fill_in_config has
\* run it has failed with one of its validation errors.
C2_LengthValidated ==
  (op \in {"set_ee", "regulate_ee"} /\ (BadLen(args.stiffness) \/ BadLen(args.damping))) =>
    /\ nConfig = 0
    /\ nGoals = 0
    /\ (pc = "idle" /\ outcome # "Action server connection time out!") =>
         outcome \in FillErrors

\* C3: a regulate_ee call that found the action endpoint unreachable for the whole
\* connect window ends with the connection-timeout error, and such a call has
\* submitted no goal and issued no cancel. (A call whose keywords the method does
\* not declare never starts, so it finds nothing.)
C3_ConnectTimeout ==
  (op = "regulate_ee" /\ args.extra = {}) =>
    /\ outcome = "Action server connection time out!" =>
         /\ pc = "idle"
         /\ nGoals = 0 /\ nCancels = 0 /\ sent = None
         /\ status = entryStatus
    /\ ~serverUp =>
         /\ pc \in {"reg_wait", "idle"}
         /\ waited <= ConnectTimeout
         /\ nGoals = 0 /\ nCancels = 0
         /\ pc = "idle" => outcome = "Action server connection time out!"

C3_Witness ==
  /\ op = "regulate_ee"
  /\ pc = "idle"
  /\ outcome = "Action server connection time out!"
  /\ ~serverUp

\* C4: once a poll of regulate_ee has read ACTIVE, SUCCEEDED, PREEMPTED or LOST, the
\* call issues no cancel and ends by returning normally.
C4_LeftPendingReturns ==
  (op = "regulate_ee" /\ state \in {"ACTIVE", "SUCCEEDED", "PREEMPTED", "LOST"}) =>
    /\ nCancels = 0
    /\ pc \notin {"reg_cancel", "reg_raise"}
    /\ pc = "idle" => outcome = "returned"

\* C5: once a poll of regulate_ee has read ABORTED, the call ends with the
\* goal-aborted error carrying the remote result's status field, and with nothing else.
C5_AbortedRaisesAborted ==
  (op = "regulate_ee" /\ state = "ABORTED") =>
    /\ outcome \in {"running", "Goal aborted!"}
    /\ outcome = "Goal aborted!" => errPayload = result /\ result # None

\* C6: regulate_ee raises its submission timeout only after exactly one cancel of the
\* goal it submitted, more than 10 units after t0; it never cancels twice; and a call
\* whose every poll read PENDING ends with that timeout.
C6_SubmissionTimeout ==
  op = "regulate_ee" =>
    /\ nCancels <= 1
    /\ (pc = "reg_raise" \/ outcome = "Timeout!") =>
         /\ nCancels = 1
         /\ nGoals = 1
         /\ cancelRequested
    /\ pc \in {"reg_cancel", "reg_raise"} => now - t0 > SubmitTimeout
    /\ (pc = "idle" /\ state = "PENDING") => outcome = "Timeout!"

C6_Witness ==
  /\ op = "regulate_ee"
  /\ pc = "idle"
  /\ outcome = "Timeout!"
  /\ state = "PENDING"
  /\ status = "PENDING"

\* C7: stop() called on an idle goal has returned at once: no cancel, no poll loop,
\* and the goal status is the one it found.
C7_StopWhenIdle ==
  (op = "stop" /\ entryStatus \in IdleStatuses) =>
    /\ pc = "idle"
    /\ outcome = "returned"
    /\ nCancels = 0
    /\ ~looped
    /\ state = entryStatus
    /\ status = entryStatus

C7_Witness ==
  /\ op = "stop"
  /\ pc = "idle"
  /\ entryStatus = "SUCCEEDED"
  /\ outcome = "returned"

\* C8: stop() called on a goal that is not idle issues one cancel before it polls and
\* none after; it returns normally only on a poll that read an idle status, and it
\* raises only the stop-timeout error, only after a poll that read a status that is
\* not idle and more than 3 units after t0.
C8_StopWhenBusy ==
  (op = "stop" /\ entryStatus \notin IdleStatuses) =>
    /\ nCancels = (IF pc = "stop_cancel" THEN 0 ELSE 1)
    /\ pc = "idle" => outcome \in {"returned", "Stop timeout!"}
    /\ outcome = "returned" => state \in IdleStatuses
    /\ outcome = "returned" => state \notin {"PENDING", "ACTIVE"}
    /\ (pc = "stop_raise" \/ outcome = "Stop timeout!") =>
         /\ looped
         /\ state \notin IdleStatuses
    /\ pc = "stop_raise" => now - t0 > StopTimeout

C8_Witness ==
  /\ op = "stop"
  /\ entryStatus = "PENDING"
  /\ pc = "idle"
  /\ outcome = "Stop timeout!"
  /\ state = "RECALLED"

\* C9: under FairSpec every call of regulate_ee and of stop() that has begun ends,
\* whatever the controller does.
C9_CallsTerminate == (pc # "idle") ~> (pc = "idle")

C9_Witness ==
  /\ op = "stop"
  /\ pc = "idle"
  /\ outcome = "Stop timeout!"
  /\ status = "ACTIVE"
  /\ ~follows

\* C10: is_idle() returns true exactly for SUCCEEDED, PREEMPTED, ABORTED and LOST,
\* false for every other status, and it sends nothing.
C10_IsIdle ==
  op = "is_idle" =>
    /\ pc = "idle" /\ outcome = "returned"
    /\ state = entryStatus
    /\ state \in GoalStatus
    /\ ret = Some(state \in IdleStatuses)
    /\ state \in {"PENDING", "ACTIVE", "REJECTED", "RECALLED"} => ret = Some(FALSE)
    /\ nGoals = 0 /\ nCancels = 0 /\ nConfig = 0 /\ sent = None

C10_Witness ==
  /\ op = "is_idle"
  /\ state = "RECALLED"
  /\ ret = Some(FALSE)

\* C11: when set_ee or regulate_ee is given a stiffness and a damping of length 6,
\* whatever their values, the payload it sends carries the stiffness
\* [150,150,150,10,10,10] and the damping [30,30,30,8,8,8].
C11_FixedGains ==
  ( /\ op \in {"set_ee", "regulate_ee"}
    /\ sent # None
    /\ args.stiffness # None /\ Len(args.stiffness[1]) = 6
    /\ args.damping # None /\ Len(args.damping[1]) = 6 ) =>
      /\ sent[1].stiffness = Some(<<150, 150, 150, 10, 10, 10>>)
      /\ sent[1].damping = Some(<<30, 30, 30, 8, 8, 8>>)

C11_Witness ==
  /\ op = "regulate_ee"
  /\ args.stiffness = Some(<<100, 200, 300, 20, 30, 40>>)
  /\ args.damping = Some(<<100, 200, 300, 20, 30, 40>>)
  /\ nGoals = 1
  /\ sent # None

\* C12: get_ee_transform() on a response of 16 values v0..v15 returns a matrix of 4
\* rows and 4 columns whose entry at row i, column j is v[4*i+j], for i, j in 0..3.
\* (TLA+ sequences count from 1, so row i is ret[1][i + 1] and v[k] is o_T_ee[1][k + 1].)
C12_RowMajorReshape ==
  op = "get_ee_transform" =>
    /\ pc = "idle" /\ outcome = "returned"
    /\ o_T_ee # None /\ Len(o_T_ee[1]) = 16
    /\ ret # None
    /\ Len(ret[1]) = 4
    /\ \A i \in 0..3 :
         /\ Len(ret[1][i + 1]) = 4
         /\ \A j \in 0..3 : ret[1][i + 1][j + 1] = o_T_ee[1][4 * i + j + 1]

C12_Witness ==
  /\ op = "get_ee_transform"
  /\ o_T_ee = Some(<<0, 1, 2, 3, 4, 5, 6, 7, 8, 9, 10, 11, 12, 13, 14, 15>>)
  /\ ret # None
  /\ ret[1][2][1] = 4
  /\ ret[1][1][2] = 1

\* C13: the script's call regulate_ee(T, ee_control_force_bound=7, k_translation=150,
\* k_rotation=10) is accepted: it is not refused for its keywords, the goal it submits
\* has the force bound 7 and nothing of the two extra keywords, and unless the endpoint
\* is unreachable the call has submitted one goal when it ends, so that the script
\* goes on to stop().
C13_ScriptCallAccepted ==
  ( /\ op = "regulate_ee"
    /\ args.force = Some(7)
    /\ args.extra = {"k_translation", "k_rotation"} ) =>
      /\ outcome # "TypeError: unexpected keyword argument"
      /\ sent # None =>
           /\ sent[1].ee_control_force_bound = 7
           /\ sent[1].stiffness = None /\ sent[1].damping = None
      /\ (pc = "idle" /\ outcome # "Action server connection time out!") => nGoals = 1

\* C14: a call of regulate_ee submits at most one goal and a call of set_ee sends at
\* most one config request, however the call ends, and no other call submits or sends
\* anything; a goal reaches the server only in the submit step of a regulate_ee call
\* that has submitted none, so no error is followed by a second submission. (nGoals
\* and nConfig count within the current call, so the totals over a sequence of calls
\* are at most the numbers of regulate_ee and of set_ee calls.)
C14_AtMostOnce ==
  /\ [](/\ nGoals <= 1
        /\ nConfig <= 1
        /\ (op # "regulate_ee" => nGoals = 0)
        /\ (op # "set_ee" => nConfig = 0)
        /\ ((nGoals = 0 /\ nConfig = 0) <=> sent = None))
  /\ [][/\ ((nCalls' = nCalls /\ nGoals' # nGoals) =>
              (op = "regulate_ee" /\ pc = "reg_fill" /\ nGoals = 0 /\ nGoals' = 1))
        /\ ((nCalls' = nCalls) => nConfig' = nConfig)
        /\ ((status' = "PENDING" /\ status # "PENDING") => nGoals' = nGoals + 1)
        /\ ((nCalls' = nCalls + 1) =>
              (nGoals' = 0 /\ nConfig' = IF sent' # None THEN 1 ELSE 0))
        /\ ((nCalls' = nCalls /\ outcome' # outcome /\ outcome' # "returned") =>
              (nGoals' = nGoals /\ status' = status))
       ]_vars

C14_Witness ==
  /\ nCalls = 2
  /\ op = "regulate_ee"
  /\ pc = "idle"
  /\ outcome = "Timeout!"
  /\ nGoals = 1

\* C15: a regulate_ee call waits for the action endpoint, then builds and validates
\* the config, then submits the goal, then polls: while it waits nothing is validated
\* or sent; a validation error is raised only once the endpoint was reached; a goal is
\* submitted only with the endpoint reached and the arguments valid; the status is
\* read only after the goal was submitted; and a call with a stiffness of the wrong
\* length against an endpoint that stays unreachable ends with the connection-timeout
\* error, not with the validation error.
C15_StepOrder ==
  (op = "regulate_ee" /\ args.extra = {}) =>
    /\ pc = "reg_wait" => (outcome = "running" /\ nGoals = 0 /\ sent = None /\ state = "none")
    /\ pc = "reg_fill" => (serverUp /\ nGoals = 0 /\ sent = None /\ state = "none")
    /\ outcome \in FillErrors => (serverUp /\ nGoals = 0 /\ state = "none")
    /\ nGoals > 0 =>
         /\ serverUp
         /\ ~BadLen(args.stiffness)
         /\ ~(args.stiffness = None /\ args.damping # None)
    /\ state # "none" => nGoals = 1
    /\ (BadLen(args.stiffness) /\ ~serverUp /\ pc = "idle") =>
         outcome = "Action server connection time out!"

C15_Witness ==
  /\ op = "regulate_ee"
  /\ BadLen(args.stiffness)
  /\ ~serverUp
  /\ pc = "idle"
  /\ outcome = "Action server connection time out!"

\* C16: set_ee, get_ee_transform and is_idle submit no goal, cancel no goal and do not
\* wait on the goal's status: the call is one step that leaves the action client's
\* goal, its status, its result and its pending cancel as they were and counts no
\* goal and no cancel; set_ee reads no status at all and, when it returns, has sent
\* exactly one config request.
C16_NoGoalEffect ==
  /\ [](op \in {"set_ee", "get_ee_transform", "is_idle"} =>
          /\ pc = "idle"
          /\ nGoals = 0 /\ nCancels = 0
          /\ ~looped
          /\ (op = "set_ee" => state = "none")
          /\ (op = "set_ee" /\ outcome = "returned") => nConfig = 1
          /\ (op = "set_ee" /\ outcome # "returned") => nConfig = 0)
  /\ [][(nCalls' = nCalls + 1 /\ op' \in {"set_ee", "get_ee_transform", "is_idle"}) =>
          /\ status' = status
          /\ result' = result
          /\ cancelRequested' = cancelRequested
          /\ pc' = "idle"
       ]_vars

C16_Witness ==
  /\ op = "set_ee"
  /\ outcome = "returned"
  /\ nConfig = 1
  /\ entryStatus = "ACTIVE"
  /\ status = "ACTIVE"
  /\ ~cancelRequested

\* C17: when regulate_ee returns normally, the call has submitted exactly one goal and
\* issued no cancel, and the status it read last is neither PENDING nor ABORTED; in
\* particular it never returns normally with PENDING as the status read last.
C17_NormalReturn ==
  (op = "regulate_ee" /\ pc = "idle" /\ outcome = "returned") =>
    /\ nGoals = 1
    /\ nCancels = 0
    /\ state \in GoalStatus
    /\ state # "PENDING"
    /\ state # "ABORTED"

C17_Witness ==
  /\ op = "regulate_ee"
  /\ pc = "idle"
  /\ outcome = "returned"
  /\ state = "ACTIVE"
  /\ status = "ABORTED"

\* C18: the payload built by set_ee and by regulate_ee has as its desired pose the 16
\* entries of the target, entry 4*i+j being row i, column j; its force and torque
\* bounds are the ones supplied, and 50 and 4 when they are omitted; and a stiffness or
\* damping that is not supplied leaves its field without a vector: the fixed vectors
\* are not put there.
C18_Payload ==
  (op \in {"set_ee", "regulate_ee"} /\ sent # None) =>
    /\ Len(sent[1].o_T_ee_desired) = 16
    /\ \A i \in 0..3 : \A j \in 0..3 :
         sent[1].o_T_ee_desired[4 * i + j + 1] = args.target[i + 1][j + 1]
    /\ sent[1].ee_control_force_bound = IF args.force = None THEN 50 ELSE args.force[1]
    /\ sent[1].ee_control_torque_bound = IF args.torque = None THEN 4 ELSE args.torque[1]
    /\ args.stiffness = None => sent[1].stiffness = None
    /\ args.damping = None => sent[1].damping = None

C18_Witness ==
  /\ op = "set_ee"
  /\ sent # None
  /\ args.stiffness = None /\ args.damping = None
  /\ args.force = None
  /\ args.torque = Some(2)
  /\ sent[1].ee_control_force_bound = 50
  /\ sent[1].ee_control_torque_bound = 2
  /\ sent[1].o_T_ee_desired[4] = 2
  /\ sent[1].o_T_ee_desired[13] = 0

\* C19: for every pose response of 16 values, a regulate_ee or set_ee call whose target
\* is the matrix get_ee_transform() returns for that response puts the same 16
\* values in the same order into the desired pose of its payload.
C19_RoundTrip ==
  \A r \in PoseResponses :
    ( /\ op \in {"set_ee", "regulate_ee"}
      /\ sent # None
      /\ args.target = Reshape(r) ) => sent[1].o_T_ee_desired = r

C19_Witness ==
  /\ op = "regulate_ee"
  /\ nGoals = 1
  /\ args.target = Reshape(<<0, 1, 2, 3, 4, 5, 6, 7, 8, 9, 10, 11, 12, 13, 14, 15>>)
  /\ sent # None
  /\ sent[1].o_T_ee_desired = <<0, 1, 2, 3, 4, 5, 6, 7, 8, 9, 10, 11, 12, 13, 14, 15>>

====
